---- MODULE Spec2Model ----
(***************************************************************************)
(* Model of fix_xcode_project.py: a script that reads                      *)
(* XCAChatGPT.xcodeproj/project.pbxproj in text mode, drops every line     *)
(* that names one of seven deleted source files (unless the line also      *)
(* names PDFDrawerComponents.swift), and writes the result back in place.  *)
(*                                                                         *)
(* Text is a sequence of one-character strings; the file on disk is a      *)
(* sequence of the same (one character = one byte, the project file is     *)
(* ASCII).                                                                 *)
(***************************************************************************)
EXTENDS Integers, Sequences, FiniteSets

VARIABLES
    fileExists,      \* the project file exists on disk
    fileBytes,       \* its bytes (<<>> while it does not exist)
    linesep,         \* os.linesep of the platform the script runs on
    pc,              \* the statement the script is about to execute
    content,         \* content = f.read()
    lines,           \* lines = content.split('\n')
    filtered_lines,  \* filtered_lines
    idx,             \* 1-based position of  for line in lines
    stdout,          \* what print has written
    run,             \* how many times the script has been started
    startExists,     \* history: fileExists when the current run started
    startBytes,      \* history: fileBytes when the current run started
    failedAt,        \* history: the statement that raised, "none" before
    firstBytes       \* history: fileBytes before the first run

vars == <<fileExists, fileBytes, linesep, pc, content, lines, filtered_lines,
          idx, stdout, run, startExists, startBytes, failedAt, firstBytes>>

(* ------------------------------ bounds -------------------------------- *)

\* Number of chunks an input file is assembled from.
MaxChunks == 3

\* Number of chunks of an input file in the runs checked under fairness.
MaxChunksLive == 2

\* Number of successive invocations of the script.
MaxRuns == 2

\* Largest number of bytes a failing write leaves in the file.
MaxPartial == 2

(* ----------------------------- characters ----------------------------- *)

LF == "\n"
CR == "\r"

(* ------------------------- program constants -------------------------- *)

PDFViewWrapper ==
    <<"P","D","F","V","i","e","w","W","r","a","p","p","e","r",".","s","w","i","f","t">>
PDFDrawerContainer ==
    <<"P","D","F","D","r","a","w","e","r","C","o","n","t","a","i","n","e","r",".","s","w","i","f","t">>
RightSideDrawerView ==
    <<"R","i","g","h","t","S","i","d","e","D","r","a","w","e","r","V","i","e","w",".","s","w","i","f","t">>
PDFFormFieldsView ==
    <<"P","D","F","F","o","r","m","F","i","e","l","d","s","V","i","e","w",".","s","w","i","f","t">>
PDFManager ==
    <<"P","D","F","M","a","n","a","g","e","r",".","s","w","i","f","t">>
SamplePDFTestView ==
    <<"S","a","m","p","l","e","P","D","F","T","e","s","t","V","i","e","w",".","s","w","i","f","t">>
PDFDrawerExampleView ==
    <<"P","D","F","D","r","a","w","e","r","E","x","a","m","p","l","e","V","i","e","w",".","s","w","i","f","t">>

\* The list the inner loop iterates, in source order.
files_to_remove ==
    <<PDFViewWrapper, PDFDrawerContainer, RightSideDrawerView, PDFFormFieldsView,
      PDFManager, SamplePDFTestView, PDFDrawerExampleView>>

\* The literal tested with "not in" on the same line.
PDFDrawerComponents ==
    <<"P","D","F","D","r","a","w","e","r","C","o","m","p","o","n","e","n","t","s",".","s","w","i","f","t">>

SuccessMessage == "Removed references to deleted files from Xcode project"
HintMessage == "Now run: Clean Build Folder (Cmd+Shift+K) and Build (Cmd+B)"

(* --------------------------- pure functions --------------------------- *)

\* Python's  s in line  on str: s occurs as a contiguous run of characters.
Contains(line, s) ==
    \E i \in 0..(Len(line) - Len(s)) : SubSeq(line, i + 1, i + Len(s)) = s

\* The inner for-loop, from position k of files_to_remove: the first filename
\* found in the line while the marker is absent sets should_keep to False and
\* breaks; running off the end of the list leaves should_keep True.
RECURSIVE InnerLoop(_, _)
InnerLoop(line, k) ==
    IF k > Len(files_to_remove) THEN TRUE
    ELSE IF Contains(line, files_to_remove[k]) /\ ~Contains(line, PDFDrawerComponents)
         THEN FALSE
         ELSE InnerLoop(line, k + 1)

\* A loop that stops one filename short of the end of the list.
RECURSIVE InnerLoopShort(_, _)
InnerLoopShort(line, k) ==
    IF k > Len(files_to_remove) - 1 THEN TRUE
    ELSE IF Contains(line, files_to_remove[k]) /\ ~Contains(line, PDFDrawerComponents)
         THEN FALSE
         ELSE InnerLoopShort(line, k + 1)

ShouldKeepShortList(line) == InnerLoopShort(line, 1)

\* A loop that tests the filenames but not the marker.
ShouldKeepNoMarker(line) ==
    ~ \E k \in 1..Len(files_to_remove) : Contains(line, files_to_remove[k])

\* A loop that never clears should_keep.
ShouldKeepAlways(line) == TRUE

\* Value of should_keep after the inner loop.
ShouldKeep(line) == InnerLoop(line, 1)

\* The scan of str.split: from position start, find the next separator, cut
\* the piece before it and go on after it; the rest of the text, empty or
\* not, is the last piece.  Always returns at least one piece.
RECURSIVE SplitFrom(_, _)
SplitFrom(s, start) ==
    LET seps == { i \in start..Len(s) : s[i] = LF }
    IN  IF seps = {} THEN << SubSeq(s, start, Len(s)) >>
        ELSE LET p == CHOOSE i \in seps : \A j \in seps : i <= j
             IN  << SubSeq(s, start, p - 1) >> \o SplitFrom(s, p + 1)

\* A split that discards empty lines.
SplitDropEmpty(s) == SelectSeq(SplitFrom(s, 1), LAMBDA l : l # <<>>)

\* content.split('\n')
Split(s) == SplitFrom(s, 1)

\* str.join: the pieces with sep between each two neighbours.
RECURSIVE JoinSep(_, _)
JoinSep(ls, sep) ==
    IF ls = <<>> THEN <<>>
    ELSE IF Len(ls) = 1 THEN ls[1]
         ELSE ls[1] \o sep \o JoinSep(Tail(ls), sep)

\* A join that terminates every line, the last one included.
RECURSIVE JoinTerminated(_)
JoinTerminated(ls) ==
    IF ls = <<>> THEN <<>> ELSE ls[1] \o <<LF>> \o JoinTerminated(Tail(ls))

\* '\n'.join(ls)
Join(ls) == JoinSep(ls, <<LF>>)

\* Text-mode read with newline=None (universal newlines): "\r\n" and a lone
\* "\r" both arrive in the program as "\n".  The "\r" of a "\r\n" pair is
\* skipped, every other "\r" is replaced.
ReadTranslate(b) ==
    LET positions == [ i \in 1..Len(b) |-> i ]
        kept == SelectSeq(positions,
                          LAMBDA i : ~(b[i] = CR /\ i < Len(b) /\ b[i + 1] = LF))
    IN  [ k \in 1..Len(kept) |-> IF b[kept[k]] = CR THEN LF ELSE b[kept[k]] ]

\* Text-mode write with newline=None: every "\n" leaves as os.linesep (sep).
WriteTranslate(s, sep) == JoinSep(SplitFrom(s, 1), sep)

(* ------------------------------- inputs ------------------------------- *)

\* Pieces the input files are assembled from: the first two filenames of the
\* list, the marker, both line-ending characters, a character of other text,
\* and a whole line naming the last filename of the list.
Chunks ==
    {PDFViewWrapper, PDFDrawerContainer, PDFDrawerComponents, <<LF>>, <<CR>>, <<"x">>,
     PDFDrawerExampleView \o <<LF>>}

RECURSIVE Flatten(_)
Flatten(cs) == IF cs = <<>> THEN <<>> ELSE cs[1] \o Flatten(Tail(cs))

\* The files made of at most n pieces.
FilesOf(n) == { Flatten(cs) : cs \in UNION { [1..k -> Chunks] : k \in 0..n } }

InputFiles == FilesOf(MaxChunks)

\* os.linesep of the platforms Python runs on.
LineSeps == { <<LF>>, <<CR, LF>> }

(* ---------------------------- state machine --------------------------- *)

\* Before the script is started: the project file is missing, or holds one
\* of the given contents.
InitWith(files) ==
    /\ fileExists \in BOOLEAN
    /\ fileBytes \in (IF fileExists THEN files ELSE {<<>>})
    /\ linesep \in LineSeps
    /\ pc = "Idle"
    /\ content = <<>>
    /\ lines = <<>>
    /\ filtered_lines = <<>>
    /\ idx = 0
    /\ stdout = <<>>
    /\ run = 0
    /\ startExists = fileExists
    /\ startBytes = fileBytes
    /\ failedAt = "none"
    /\ firstBytes = fileBytes

Init == InitWith(InputFiles)

\* The script is started: the first time, or again after a completed run.
Invoke ==
    /\ pc \in {"Idle", "Done"}
    /\ run < MaxRuns
    /\ run' = run + 1
    /\ pc' = "open_r"
    /\ startExists' = fileExists
    /\ startBytes' = fileBytes
    /\ content' = <<>>
    /\ lines' = <<>>
    /\ filtered_lines' = <<>>
    /\ idx' = 0
    /\ UNCHANGED <<fileExists, fileBytes, linesep, stdout, failedAt, firstBytes>>

\* The exception leaves the with-block and the module body; nothing catches it.
Raise(step) ==
    /\ pc' = "Failed"
    /\ failedAt' = step

\* open(path, 'r') succeeds.
OpenRead ==
    /\ pc = "open_r"
    /\ fileExists
    /\ pc' = "read"
    /\ UNCHANGED <<fileExists, fileBytes, linesep, content, lines, filtered_lines,
                   idx, stdout, run, startExists, startBytes, failedAt, firstBytes>>

\* A swallowed open failure that creates the file instead (mode 'a+').
OpenReadFailCreates ==
    /\ pc = "open_r"
    /\ Raise("open_r")
    /\ fileExists' = TRUE
    /\ fileBytes' = IF fileExists THEN fileBytes ELSE <<>>
    /\ UNCHANGED <<linesep, content, lines, filtered_lines,
                   idx, stdout, run, startExists, startBytes, firstBytes>>

\* open(path, 'r') raises: FileNotFoundError when the path does not exist,
\* PermissionError (or another OSError) when it does.
OpenReadFail ==
    /\ pc = "open_r"
    /\ Raise("open_r")
    /\ UNCHANGED <<fileExists, fileBytes, linesep, content, lines, filtered_lines,
                   idx, stdout, run, startExists, startBytes, firstBytes>>

\* content = f.read()
Read ==
    /\ pc = "read"
    /\ content' = ReadTranslate(fileBytes)
    /\ pc' = "split"
    /\ UNCHANGED <<fileExists, fileBytes, linesep, lines, filtered_lines,
                   idx, stdout, run, startExists, startBytes, failedAt, firstBytes>>

\* f.read() raises (I/O error, undecodable bytes).
ReadFail ==
    /\ pc = "read"
    /\ Raise("read")
    /\ UNCHANGED <<fileExists, fileBytes, linesep, content, lines, filtered_lines,
                   idx, stdout, run, startExists, startBytes, firstBytes>>

\* lines = content.split('\n'); filtered_lines = []
SplitLines ==
    /\ pc = "split"
    /\ lines' = Split(content)
    /\ filtered_lines' = <<>>
    /\ idx' = 1
    /\ pc' = "loop"
    /\ UNCHANGED <<fileExists, fileBytes, linesep, content,
                   stdout, run, startExists, startBytes, failedAt, firstBytes>>

\* An insert at the front instead of an append.
PrependLine(ls, line) == <<line>> \o ls

\* An append of the line with its first character rewritten.
AppendRewritten(ls, line) ==
    Append(ls, IF line = <<>> THEN line ELSE <<"#">> \o Tail(line))

\* filtered_lines.append(line)
AppendLine(ls, line) == Append(ls, line)

\* One iteration of  for line in lines.
FilterLine ==
    /\ pc = "loop"
    /\ idx <= Len(lines)
    /\ filtered_lines' = IF ShouldKeep(lines[idx])
                         THEN AppendLine(filtered_lines, lines[idx])
                         ELSE filtered_lines
    /\ idx' = idx + 1
    /\ pc' = IF idx = Len(lines) THEN "open_w" ELSE "loop"
    /\ UNCHANGED <<fileExists, fileBytes, linesep, content, lines,
                   stdout, run, startExists, startBytes, failedAt, firstBytes>>

\* An open for writing that leaves the old content in place until the write.
OpenWriteNoTruncate ==
    /\ pc = "open_w"
    /\ pc' = "write"
    /\ UNCHANGED <<fileExists, fileBytes, linesep, content, lines, filtered_lines,
                   idx, stdout, run, startExists, startBytes, failedAt, firstBytes>>

\* open(path, 'w') succeeds: the file is truncated to length zero.
OpenWrite ==
    /\ pc = "open_w"
    /\ fileExists' = TRUE
    /\ fileBytes' = <<>>
    /\ pc' = "write"
    /\ UNCHANGED <<linesep, content, lines, filtered_lines,
                   idx, stdout, run, startExists, startBytes, failedAt, firstBytes>>

\* An open failure that is swallowed, the script going on to report success.
OpenWriteFailSwallowed ==
    /\ pc = "open_w"
    /\ pc' = "print1"
    /\ UNCHANGED <<fileExists, fileBytes, linesep, content, lines, filtered_lines,
                   idx, stdout, run, startExists, startBytes, failedAt, firstBytes>>

\* open(path, 'w') raises (PermissionError): nothing was truncated.
OpenWriteFail ==
    /\ pc = "open_w"
    /\ Raise("open_w")
    /\ UNCHANGED <<fileExists, fileBytes, linesep, content, lines, filtered_lines,
                   idx, stdout, run, startExists, startBytes, firstBytes>>

\* f.write('\n'.join(filtered_lines)) and the close at the end of the block.
Write ==
    /\ pc = "write"
    /\ fileBytes' = WriteTranslate(Join(filtered_lines), linesep)
    /\ pc' = "print1"
    /\ UNCHANGED <<fileExists, linesep, content, lines, filtered_lines,
                   idx, stdout, run, startExists, startBytes, failedAt, firstBytes>>

Min(a, b) == IF a <= b THEN a ELSE b

\* The write or the flush on close raises (disk full, I/O error) after a
\* proper prefix of the data has reached the file.
WriteFail ==
    /\ pc = "write"
    /\ LET data == WriteTranslate(Join(filtered_lines), linesep)
       IN  \E n \in 0..Min(Len(data) - 1, MaxPartial) :
              fileBytes' = SubSeq(data, 1, n)
    /\ Raise("write")
    /\ UNCHANGED <<fileExists, linesep, content, lines, filtered_lines,
                   idx, stdout, run, startExists, startBytes, firstBytes>>

\* print("... Removed references to deleted files from Xcode project")
PrintSuccess ==
    /\ pc = "print1"
    /\ stdout' = Append(stdout, SuccessMessage)
    /\ pc' = "print2"
    /\ UNCHANGED <<fileExists, fileBytes, linesep, content, lines, filtered_lines,
                   idx, run, startExists, startBytes, failedAt, firstBytes>>

\* print("Now run: ...") and the end of the module body.
PrintHint ==
    /\ pc = "print2"
    /\ stdout' = Append(stdout, HintMessage)
    /\ pc' = "Done"
    /\ UNCHANGED <<fileExists, fileBytes, linesep, content, lines, filtered_lines,
                   idx, run, startExists, startBytes, failedAt, firstBytes>>

Next ==
    \/ Invoke
    \/ OpenRead
    \/ OpenReadFail
    \/ Read
    \/ ReadFail
    \/ SplitLines
    \/ FilterLine
    \/ OpenWrite
    \/ OpenWriteFail
    \/ Write
    \/ WriteFail
    \/ PrintSuccess
    \/ PrintHint

Spec == Init /\ [][Next]_vars

\* The interpreter keeps executing the script: a started run always takes
\* its next step.  Checked over the files of at most MaxChunksLive pieces.
FairSpec == InitWith(FilesOf(MaxChunksLive)) /\ [][Next]_vars /\ WF_vars(Next)

(* ------------------------------ the rule ------------------------------ *)

\* The line names at least one of the seven deleted files.
ContainsExclusion(line) ==
    \E k \in 1..Len(files_to_remove) : Contains(line, files_to_remove[k])

ContainsMarker(line) == Contains(line, PDFDrawerComponents)

\* The three-way rule of the documentation.
RuleKeeps(line) ==
    IF ContainsMarker(line) THEN TRUE
    ELSE IF ContainsExclusion(line) THEN FALSE
    ELSE TRUE

RuleDrops(line) == ContainsExclusion(line) /\ ~ContainsMarker(line)

\* Program positions at which the loop over the lines has finished.
AfterLoop == {"open_w", "write", "print1", "print2", "Done"}

\* Program positions at which the write has completed.
AfterWrite == {"print1", "print2", "Done"}

\* What a complete write of the retained lines puts on disk.
FullOutput == WriteTranslate(Join(filtered_lines), linesep)

\* Number of lines printed by the current run.
PrintedThisRun == Len(stdout) - 2 * (IF run = 0 THEN 0 ELSE run - 1)

Count(ls, l) == Cardinality({ i \in 1..Len(ls) : ls[i] = l })

\* a is obtained from b by deleting elements.
RECURSIVE IsSubsequence(_, _)
IsSubsequence(a, b) ==
    IF a = <<>> THEN TRUE
    ELSE IF b = <<>> THEN FALSE
    ELSE IF a[1] = b[1] THEN IsSubsequence(Tail(a), Tail(b))
    ELSE IsSubsequence(a, Tail(b))

(* ------------------------------- claims ------------------------------- *)

\* C1: once the write has completed, every line of the file on disk either
\* contains the marker or contains none of the seven exclusion strings.
C1_WrittenLinesClean ==
    pc \in AfterWrite =>
        LET written == Split(fileBytes)
        IN  \A i \in 1..Len(written) :
                ContainsMarker(written[i]) \/ ~ContainsExclusion(written[i])

\* A completed run that removed a line and wrote back a line holding both an
\* exclusion string and the marker.
C1_Witness ==
    /\ pc = "Done"
    /\ Len(filtered_lines) < Len(lines)
    /\ \E i \in 1..Len(filtered_lines) :
          ContainsMarker(filtered_lines[i]) /\ ContainsExclusion(filtered_lines[i])
    /\ Split(fileBytes) = filtered_lines

\* C2: for every line of the document the loop's decision is the three-way
\* rule (marker: keep; else exclusion: drop; else keep), a line is dropped
\* exactly when it has an exclusion string and no marker, and the lines kept
\* so far are exactly the lines seen so far that the rule keeps.
C2_LoopDecisionIsRule ==
    pc \in AfterLoop \cup {"loop"} =>
        /\ \A i \in 1..Len(lines) :
              /\ ShouldKeep(lines[i]) = RuleKeeps(lines[i])
              /\ (~ShouldKeep(lines[i])) = RuleDrops(lines[i])
        /\ filtered_lines = SelectSeq(SubSeq(lines, 1, idx - 1), RuleKeeps)

\* The loop has kept a line with both an exclusion string and the marker
\* and dropped a line with an exclusion string only.
C2_Witness ==
    /\ pc = "open_w"
    /\ \E i \in 1..Len(filtered_lines) :
          ContainsMarker(filtered_lines[i]) /\ ContainsExclusion(filtered_lines[i])
    /\ \E i \in 1..Len(lines) : RuleDrops(lines[i])

\* C3: the retained lines are a sub-multiset of the lines read (no line is
\* added or rewritten), and the file written back consists of exactly the
\* retained lines.
C3_OnlyWholeLinesRemoved ==
    /\ \A i \in 1..Len(filtered_lines) :
          Count(filtered_lines, filtered_lines[i]) <= Count(lines, filtered_lines[i])
    /\ pc \in AfterWrite =>
          IF filtered_lines = <<>> THEN fileBytes = <<>>
          ELSE Split(ReadTranslate(fileBytes)) = filtered_lines

\* A completed run that removed one line and retained two, one not empty.
C3_Witness ==
    /\ pc = "Done"
    /\ Len(filtered_lines) = 2
    /\ Len(lines) = 3
    /\ filtered_lines[1] # <<>>

\* C4: the retained lines are a subsequence of the lines read: relative
\* order is kept and nothing is duplicated.
C4_OrderPreserved == IsSubsequence(filtered_lines, lines)

\* Two different lines retained around a removed one.
C4_Witness ==
    /\ pc = "open_w"
    /\ Len(lines) = 3
    /\ Len(filtered_lines) = 2
    /\ RuleDrops(lines[2])
    /\ filtered_lines[1] # filtered_lines[2]

\* C5: a run that follows a completed run leaves the file as it found it and
\* removes no line.
C5_Idempotent ==
    (run >= 2 /\ pc \in AfterWrite) =>
        /\ fileBytes = startBytes
        /\ Len(filtered_lines) = Len(lines)

\* A second run has completed after a first run that removed a line.
C5_Witness ==
    /\ run = 2
    /\ pc = "Done"
    /\ Len(Split(ReadTranslate(firstBytes))) > Len(lines)
    /\ Len(lines) >= 2

\* C6: a run whose open-for-read or read fails (a missing file included)
\* stops there: it never gets past the failure, the file exists or not as
\* before, with the bytes it had, and no success message is printed.
C6_ReadFailureLeavesFile ==
    /\ failedAt \in {"open_r", "read"} =>
          /\ pc = "Failed"
          /\ fileExists = startExists
          /\ fileBytes = startBytes
          /\ PrintedThisRun = 0
    /\ (~startExists /\ pc \notin {"Idle", "open_r"}) =>
          (pc = "Failed" /\ failedAt = "open_r" /\ ~fileExists)

\* The run aborted on a missing file.
C6_WitnessMissing == pc = "Failed" /\ failedAt = "open_r" /\ ~startExists

\* The run aborted in the read of an existing file with lines to remove.
C6_Witness ==
    /\ pc = "Failed"
    /\ failedAt = "read"
    /\ \E i \in 1..Len(Split(ReadTranslate(fileBytes))) :
          RuleDrops(Split(ReadTranslate(fileBytes))[i])

\* The order in which a run moves through the script.
StepOrder ==
    { <<"Idle", "open_r">>, <<"open_r", "read">>, <<"read", "split">>,
      <<"split", "loop">>, <<"loop", "open_w">>, <<"open_w", "write">>,
      <<"write", "print1">>, <<"print1", "print2">>, <<"print2", "Done">>,
      <<"Done", "open_r">>,
      <<"open_r", "Failed">>, <<"read", "Failed">>, <<"open_w", "Failed">>,
      <<"write", "Failed">> }

\* C7: read, filter, write and message happen in that order; a failed run
\* takes no further step and prints nothing; the success message is on
\* stdout only when the complete filtered document is on disk; and every
\* started run ends, in Done (with the filtered document on disk) unless a
\* step failed.
C7_MessageOnlyAfterWrite ==
    /\ [][ /\ pc # "Failed"
           /\ (pc' # pc => <<pc, pc'>> \in StepOrder)
           /\ (stdout' # stdout => pc \in {"print1", "print2"}) ]_vars
    /\ [](PrintedThisRun > 0 => (pc \in {"print2", "Done"} /\ fileBytes = FullOutput))
    /\ [](pc = "Failed" => PrintedThisRun = 0)
    /\ [](pc = "Done" =>
            fileBytes = WriteTranslate(
                Join(SelectSeq(Split(ReadTranslate(startBytes)), RuleKeeps)), linesep))
    /\ ((pc = "open_r") ~> (pc \in {"Done", "Failed"}))

\* A run that removed a line has printed its message.
C7_Witness ==
    /\ pc = "Done"
    /\ PrintedThisRun = 2
    /\ Len(filtered_lines) < Len(lines)
    /\ fileBytes # startBytes

HasCR(b) == \E i \in 1..Len(b) : b[i] = CR

C9_LineCount ==
    pc \in AfterLoop \cup {"loop"} =>
        /\ Len(filtered_lines) <= Len(lines)
        /\ (idx - 1) - Len(filtered_lines) =
              Cardinality({ i \in 1..(idx - 1) : RuleDrops(lines[i]) })
        /\ pc \in AfterLoop => idx - 1 = Len(lines)

\* The loop has finished and removed two lines.
C9_Witness ==
    /\ pc = "open_w"
    /\ Len(lines) - Len(filtered_lines) = 2
    /\ Len(filtered_lines) >= 1

\* C10: the open for writing empties the file before any filtered content
\* is written; a failure in the write leaves a proper prefix of the
\* filtered document on disk; and a failed run changes the file no more.
C10_OverwrittenInPlace ==
    [][ /\ (pc = "open_w" /\ pc' = "write") => fileBytes' = <<>>
        /\ (pc = "write" /\ pc' = "Failed") =>
              /\ Len(fileBytes') < Len(FullOutput)
              /\ fileBytes' = SubSeq(FullOutput, 1, Len(fileBytes'))
        /\ pc = "Failed" => fileBytes' = fileBytes ]_vars

\* A run that failed in the write with the file neither as it was, nor
\* empty, nor the complete filtered document.
C10_Witness ==
    /\ pc = "Failed"
    /\ failedAt = "write"
    /\ fileBytes # startBytes
    /\ fileBytes # <<>>
    /\ fileBytes # FullOutput

====
